---- MODULE Spec2Model ----
(***************************************************************************)
(* Model of src/src/main.rs: the Graph store (add_vertex, get_vertex,      *)
(* add_edge) and the shortest-path search (get_shortest_path, dijkstra).   *)
(*                                                                         *)
(* A Vertex is represented by its id: Eq, Ord and Hash of Vertex are       *)
(* defined on the id alone (main.rs:33-79), the payload never takes part   *)
(* in any decision.  f64 costs are modelled by the naturals 0..MaxCost,    *)
(* on which f64 addition and comparison are exact; f64::INFINITY is a      *)
(* value above every finite sum the model can form.  Option<T> is a        *)
(* sequence of length 0 (None) or 1 (Some).                                *)
(***************************************************************************)
EXTENDS Integers, Sequences, FiniteSets, TLC

\* ---------------------------------------------------------------- bounds
MaxVertices == 4
MaxEdges == 3
MaxCost == 1

\* ------------------------------------------------------------- constants
INFINITY == 1000000

None == <<>>
Some(v) == <<v>>
unwrap(o) == o[1]

Ids == 0..MaxVertices
Costs == 0..MaxCost

\* graph, head      Graph.graph (id -> Vec<Edge>) and Graph.head
\* returned         the ids add_vertex has returned, in call order
\* pc               "idle", inside get_shortest_path ("search": the loop of
\*                  dijkstra, "walk": the predecessor walk, "done": returned)
\*                  or "panicked" (the panic ends the program)
\* op, err, args    the call in progress, the panic raised, (from, to)
\* dist, prev, visited, queue   the per-call tables and heap of dijkstra
\* distance, at, path, result   locals and return value of get_shortest_path
\* pops, relaxed    the entries popped and the vertices whose edge list was
\*                  iterated so far in this call, in order
VARIABLES graph, head, returned, pc, op, err, args,
          dist, prev, visited, queue, distance, at, path, result,
          pops, relaxed

vars == <<graph, head, returned, pc, op, err, args,
          dist, prev, visited, queue, distance, at, path, result,
          pops, relaxed>>

store == <<graph, head, returned>>
locals == <<dist, prev, visited, queue, distance, at, path, pops, relaxed>>

\* ------------------------------------------------------------ f64 helpers
f64_add(a, b) == IF a = INFINITY \/ b = INFINITY THEN INFINITY ELSE a + b
f64_lt(a, b) == a < b

f64_partial_cmp(a, b) ==
    IF a < b THEN "Less" ELSE IF a = b THEN "Equal" ELSE "Greater"

MinNonNan_cmp_natural(self, other) == f64_partial_cmp(self, other)

\* MinNonNan::partial_cmp / cmp: other.0.partial_cmp(&self.0)
MinNonNan_cmp(self, other) == f64_partial_cmp(other, self)

usize_cmp(a, b) ==
    IF a < b THEN "Less" ELSE IF a = b THEN "Equal" ELSE "Greater"

\* Vertex::cmp: self.id.cmp(&other.id)
Vertex_cmp(self, other) == usize_cmp(self, other)

\* Ord of the queue's element type (MinNonNan, Vertex): lexicographic
entry_cmp(a, b) ==
    IF MinNonNan_cmp(a[1], b[1]) # "Equal"
    THEN MinNonNan_cmp(a[1], b[1])
    ELSE Vertex_cmp(a[2], b[2])

heap_pop_index_lifo(q) == Len(q)

\* BinaryHeap::pop returns a greatest element
heap_pop_index(q) ==
    CHOOSE i \in 1..Len(q) : \A j \in 1..Len(q) : entry_cmp(q[i], q[j]) # "Less"

RemoveAt(q, i) == [k \in 1..(Len(q) - 1) |-> IF k < i THEN q[k] ELSE q[k + 1]]

NoReverse(s) == s

Reverse(s) == [k \in 1..Len(s) |-> s[Len(s) + 1 - k]]

\* ------------------------------------------------------------ Graph store
Edge_new(target, cost) == [to |-> target, cost |-> cost]

Graph_new == [graph |-> <<>>, head |-> 0]

EdgeCount(g) ==
    LET RECURSIVE Sum(_)
        Sum(S) == IF S = {} THEN 0
                  ELSE LET v == CHOOSE x \in S : TRUE
                       IN Len(g[v]) + Sum(S \ {v})
    IN Sum(DOMAIN g)

\* HashMap::insert(vertex, Vec::new()), head += 1, return head - 1
add_vertex_no_increment(g, h) ==
    [graph |-> [v \in (DOMAIN g) \cup {h} |-> IF v = h THEN <<>> ELSE g[v]],
     head |-> h,
     ret |-> h]

add_vertex(g, h) ==
    [graph |-> [v \in (DOMAIN g) \cup {h} |-> IF v = h THEN <<>> ELSE g[v]],
     head |-> h + 1,
     ret |-> (h + 1) - 1]

\* iter().find(|key| key.id == id) ... unwrap_or_else(panic)
get_vertex(g, id) == IF id \in DOMAIN g THEN Some(id) ELSE None

\* entry(key).or_insert(vec![]).push(edge)
entry_or_insert_push(g, key, edge) ==
    [v \in (DOMAIN g) \cup {key} |->
        IF v = key
        THEN (IF key \in DOMAIN g THEN Append(g[key], edge) ELSE <<edge>>)
        ELSE g[v]]

add_edge_unchecked_from(g, f, t, cost) ==
    IF get_vertex(g, t) = None
    THEN [graph |-> g, panic |-> "VertexNotFound"]
    ELSE [graph |-> entry_or_insert_push(g, f, Edge_new(unwrap(get_vertex(g, t)), cost)),
          panic |-> "none"]

add_edge(g, f, t, cost) ==
    IF get_vertex(g, t) = None
    THEN [graph |-> g, panic |-> "VertexNotFound"]
    ELSE IF get_vertex(g, f) = None
    THEN [graph |-> g, panic |-> "VertexNotFound"]
    ELSE [graph |-> entry_or_insert_push(g, unwrap(get_vertex(g, f)),
                                         Edge_new(unwrap(get_vertex(g, t)), cost)),
          panic |-> "none"]

\* ----------------------------------------------------------------- search
\* lines 166-173: the tables and the seeded queue
dijkstra_init_no_seed_dist(g, start) ==
    LET n == Cardinality(DOMAIN g) IN
    [dist |-> [i \in 0..(n - 1) |-> INFINITY],
     queue |-> <<<<0, start>>>>,
     visited |-> [i \in 0..(n - 1) |-> FALSE],
     prev |-> [i \in 0..(n - 1) |-> None]]

dijkstra_init(g, start) ==
    LET n == Cardinality(DOMAIN g) IN
    [dist |-> [i \in 0..(n - 1) |-> IF i = start THEN 0 ELSE INFINITY],
     queue |-> <<<<0, start>>>>,
     visited |-> [i \in 0..(n - 1) |-> FALSE],
     prev |-> [i \in 0..(n - 1) |-> None]]

RECURSIVE relax_edges_cost_only(_, _, _, _)
relax_edges_cost_only(edges, i, current, st) ==
    IF i > Len(edges) THEN st
    ELSE LET edge == edges[i] IN
         IF st.visited[edge.to]
         THEN relax_edges_cost_only(edges, i + 1, current, st)
         ELSE LET new_dist == edge.cost IN
              IF f64_lt(new_dist, st.dist[edge.to])
              THEN relax_edges_cost_only(edges, i + 1, current,
                       [st EXCEPT !.prev[edge.to] = Some(current),
                                  !.dist[edge.to] = new_dist,
                                  !.queue = Append(@, <<new_dist, edge.to>>)])
              ELSE relax_edges_cost_only(edges, i + 1, current, st)

\* lines 183-194: the loop over the outgoing edges of current
RECURSIVE relax_edges(_, _, _, _)
relax_edges(edges, i, current, st) ==
    IF i > Len(edges) THEN st
    ELSE LET edge == edges[i] IN
         IF st.visited[edge.to]
         THEN relax_edges(edges, i + 1, current, st)
         ELSE LET new_dist == f64_add(st.dist[current], edge.cost) IN
              IF f64_lt(new_dist, st.dist[edge.to])
              THEN relax_edges(edges, i + 1, current,
                       [st EXCEPT !.prev[edge.to] = Some(current),
                                  !.dist[edge.to] = new_dist,
                                  !.queue = Append(@, <<new_dist, edge.to>>)])
              ELSE relax_edges(edges, i + 1, current, st)

loop_iter_no_stale_check(g, st, end) ==
    IF st.queue = <<>>
    THEN [st |-> st, outcome |-> "exhausted", popped |-> None, distance |-> INFINITY]
    ELSE LET i == heap_pop_index(st.queue)
             current == st.queue[i][2]
             st1 == [st EXCEPT !.queue = RemoveAt(@, i), !.visited[current] = TRUE]
             st2 == relax_edges(g[current], 1, current, st1)
         IN IF current = end
            THEN [st |-> st2, outcome |-> "found",
                  popped |-> Some(st.queue[i]), distance |-> st2.dist[end]]
            ELSE [st |-> st2, outcome |-> "relaxed",
                  popped |-> Some(st.queue[i]), distance |-> INFINITY]

\* lines 175-200: one turn of the while-let loop
loop_iter(g, st, end) ==
    IF st.queue = <<>>
    THEN [st |-> st, outcome |-> "exhausted", popped |-> None, distance |-> INFINITY]
    ELSE LET i == heap_pop_index(st.queue)
             current_cost == st.queue[i][1]
             current == st.queue[i][2]
             st1 == [st EXCEPT !.queue = RemoveAt(@, i), !.visited[current] = TRUE]
         IN IF f64_lt(st1.dist[current], current_cost)
            THEN [st |-> st1, outcome |-> "stale",
                  popped |-> Some(st.queue[i]), distance |-> INFINITY]
            ELSE LET st2 == relax_edges(g[current], 1, current, st1) IN
                 IF current = end
                 THEN [st |-> st2, outcome |-> "found",
                       popped |-> Some(st.queue[i]), distance |-> st2.dist[end]]
                 ELSE [st |-> st2, outcome |-> "relaxed",
                       popped |-> Some(st.queue[i]), distance |-> INFINITY]

IsReturn(outcome) == outcome \in {"exhausted", "found"}

\* lines 161-201: dijkstra as a whole, returning (prev, distance)
RECURSIVE dijkstra_loop(_, _, _)
dijkstra_loop(g, st, end) ==
    LET r == loop_iter(g, st, end) IN
    IF IsReturn(r.outcome)
    THEN [prev |-> r.st.prev, distance |-> r.distance]
    ELSE dijkstra_loop(g, r.st, end)

dijkstra(g, start, end) == dijkstra_loop(g, dijkstra_init(g, start), end)

\* lines 149-156: the predecessor walk; None is the panic of unwrap()
RECURSIVE walk(_, _, _, _)
walk(pv, cur, start, acc) ==
    IF cur # start
    THEN IF pv[cur] = None THEN None
         ELSE walk(pv, unwrap(pv[cur]), start, Append(acc, cur))
    ELSE Some(Reverse(Append(acc, cur)))

\* lines 143-159: get_shortest_path as a function of the store and the ids
get_shortest_path(g, f, t) ==
    IF get_vertex(g, f) = None \/ get_vertex(g, t) = None
    THEN [panic |-> "VertexNotFound", path |-> <<>>, distance |-> INFINITY]
    ELSE LET d == dijkstra(g, unwrap(get_vertex(g, f)), unwrap(get_vertex(g, t)))
             w == walk(d.prev, t, f, <<>>)
         IN IF w = None
            THEN [panic |-> "UnwrapNone", path |-> <<>>, distance |-> INFINITY]
            ELSE [panic |-> "none", path |-> unwrap(w), distance |-> d.distance]

\* ------------------------------------------------------------------ state
NoTable == <<>>

Init ==
    /\ graph = Graph_new.graph
    /\ head = Graph_new.head
    /\ returned = <<>>
    /\ pc = "idle"
    /\ op = "none"
    /\ err = "none"
    /\ args = None
    /\ dist = NoTable
    /\ prev = NoTable
    /\ visited = NoTable
    /\ queue = <<>>
    /\ distance = None
    /\ at = None
    /\ path = <<>>
    /\ result = None
    /\ pops = <<>>
    /\ relaxed = <<>>

from_id == args[1]
to_id == args[2]

\* ---------------------------------------------------------------- actions
AddVertex ==
    /\ pc = "idle"
    /\ head < MaxVertices
    /\ LET r == add_vertex(graph, head) IN
       /\ graph' = r.graph
       /\ head' = r.head
       /\ returned' = Append(returned, r.ret)
    /\ UNCHANGED <<pc, op, err, args, result>>
    /\ UNCHANGED locals

AddEdge ==
    /\ pc = "idle"
    /\ \E f \in Ids, t \in Ids, cost \in Costs :
         LET r == add_edge(graph, f, t, cost) IN
         IF r.panic = "none"
         THEN /\ EdgeCount(graph) < MaxEdges
              /\ graph' = r.graph
              /\ UNCHANGED <<pc, op, err>>
         ELSE /\ graph' = r.graph
              /\ pc' = "panicked"
              /\ op' = "add_edge"
              /\ err' = r.panic
    /\ UNCHANGED <<head, returned, args, result>>
    /\ UNCHANGED locals

\* get_shortest_path up to the first turn of the loop: lines 144-173
resolve_from_only(g, f, t) == get_vertex(g, f) # None

resolve(g, f, t) == get_vertex(g, f) # None /\ get_vertex(g, t) # None

Call ==
    /\ pc = "idle"
    /\ \E f \in Ids, t \in Ids :
         /\ args' = <<f, t>>
         /\ op' = "get_shortest_path"
         /\ IF resolve(graph, f, t)
            THEN LET st == dijkstra_init(graph, f) IN
                 /\ pc' = "search"
                 /\ dist' = st.dist
                 /\ prev' = st.prev
                 /\ visited' = st.visited
                 /\ queue' = st.queue
                 /\ UNCHANGED err
            ELSE /\ pc' = "panicked"
                 /\ err' = "VertexNotFound"
                 /\ UNCHANGED <<dist, prev, visited, queue>>
    /\ UNCHANGED <<distance, at, path, pops, relaxed, result>>
    /\ UNCHANGED store

\* one turn of the while-let loop of dijkstra; on return, line 147-150
DijkstraStep ==
    /\ pc = "search"
    /\ \E r \in {loop_iter(graph, [dist |-> dist, prev |-> prev,
                                   visited |-> visited, queue |-> queue], to_id)} :
          /\ dist' = r.st.dist
          /\ prev' = r.st.prev
          /\ visited' = r.st.visited
          /\ queue' = r.st.queue
          /\ pops' = pops \o r.popped
          /\ relaxed' = IF r.outcome \in {"found", "relaxed"}
                        THEN Append(relaxed, unwrap(r.popped)[2])
                        ELSE relaxed
          /\ IF IsReturn(r.outcome)
             THEN /\ pc' = "walk"
                  /\ distance' = Some(r.distance)
                  /\ at' = Some(to_id)
             ELSE UNCHANGED <<pc, distance, at>>
    /\ UNCHANGED <<path, result, op, err, args>>
    /\ UNCHANGED store

\* one turn of the while loop of get_shortest_path, or lines 155-158
WalkStep ==
    /\ pc = "walk"
    /\ IF unwrap(at) # from_id
       THEN /\ path' = Append(path, unwrap(at))
            /\ IF prev[unwrap(at)] = None
               THEN /\ pc' = "panicked"
                    /\ err' = "UnwrapNone"
                    /\ UNCHANGED at
               ELSE /\ at' = Some(unwrap(prev[unwrap(at)]))
                    /\ UNCHANGED <<pc, err>>
            /\ UNCHANGED result
       ELSE /\ path' = Reverse(Append(path, unwrap(at)))
            /\ result' = Some([path |-> path', distance |-> unwrap(distance)])
            /\ pc' = "done"
            /\ UNCHANGED <<at, err>>
    /\ UNCHANGED <<dist, prev, visited, queue, distance, pops, relaxed, op, args>>
    /\ UNCHANGED store

\* the caller takes the result; the per-call tables are dropped
Return ==
    /\ pc = "done"
    /\ pc' = "idle"
    /\ op' = "none"
    /\ args' = None
    /\ dist' = NoTable
    /\ prev' = NoTable
    /\ visited' = NoTable
    /\ queue' = <<>>
    /\ distance' = None
    /\ at' = None
    /\ path' = <<>>
    /\ result' = None
    /\ pops' = <<>>
    /\ relaxed' = <<>>
    /\ UNCHANGED err
    /\ UNCHANGED store

Next == AddVertex \/ AddEdge \/ Call \/ DijkstraStep \/ WalkStep \/ Return

Spec == Init /\ [][Next]_vars

FairSpec == Spec /\ WF_vars(DijkstraStep) /\ WF_vars(WalkStep)

\* ------------------------------------------------- reference definitions
\* What the claims speak of, defined on the store alone and not by the search.
Returned == {returned[k] : k \in 1..Len(returned)}

Valid(id) == id \in Returned

Min(S) == CHOOSE x \in S : \A y \in S : x <= y

NoDup(s) == \A i, j \in 1..Len(s) : i # j => s[i] # s[j]

Succ(g, u) == {g[u][k].to : k \in 1..Len(g[u])}

RECURSIVE ReachFrom(_, _)
ReachFrom(g, S) ==
    LET N == S \cup UNION {Succ(g, u) : u \in S} IN
    IF N = S THEN S ELSE ReachFrom(g, N)

\* the vertices a directed path (of length >= 0) leads to from s
ReachSet(g, s) == ReachFrom(g, {s})

\* costs of the edges u -> v of the store
EdgeCosts(g, u, v) == {g[u][k].cost : k \in {i \in 1..Len(g[u]) : g[u][i].to = v}}

\* the function f as an explicit table of its values
Table(f) == f @@ <<>>

RECURSIVE BellmanFord(_, _, _)
BellmanFord(g, d, k) ==
    IF k = 0 THEN d
    ELSE BellmanFord(g,
            Table([v \in DOMAIN g |->
                Min({d[v]} \cup
                    UNION {{d[u] + c : c \in EdgeCosts(g, u, v)} :
                             u \in {x \in DOMAIN g : d[x] # INFINITY}})]),
            k - 1)

\* the minimum over all directed paths from s of the summed edge costs
TrueDist(g, s) ==
    BellmanFord(g, [v \in DOMAIN g |-> IF v = s THEN 0 ELSE INFINITY],
                Cardinality(DOMAIN g))

\* the sums obtainable by choosing one stored edge for each hop of p from i on
RECURSIVE PathSums(_, _, _)
PathSums(g, p, i) ==
    IF i >= Len(p) THEN {0}
    ELSE {c + r : c \in EdgeCosts(g, p[i], p[i + 1]), r \in PathSums(g, p, i + 1)}

InQuery == op = "get_shortest_path"
Finished == pc \in {"done", "panicked"}
ValidPair == InQuery /\ Valid(from_id) /\ Valid(to_id)
ReachablePair == ValidPair /\ to_id \in ReachSet(graph, from_id)

\* ----------------------------------------------------------------- claims

\* C1: for a reachable pair the call returns, and the distance it returns is
\* the minimum over all directed paths of the summed edge costs.
C1_DistanceIsMinimum ==
    ReachablePair =>
        /\ pc # "panicked"
        /\ (pc = "done" =>
                unwrap(result).distance = TrueDist(graph, from_id)[to_id])

\* a returned distance that was improved during the search: the queue still
\* holds the superseded entry for the target
C1_Witness ==
    /\ pc = "done"
    /\ from_id # to_id
    /\ \E i \in 1..Len(queue) :
          queue[i][2] = to_id /\ queue[i][1] > unwrap(result).distance

\* C2: the returned path runs from `from` to `to`, each hop is a stored edge,
\* and edges can be chosen for the hops whose costs sum to the distance.
C2_PathIsValid ==
    (ReachablePair /\ pc = "done") =>
        LET p == unwrap(result).path IN
        /\ Len(p) >= 1
        /\ p[1] = from_id
        /\ p[Len(p)] = to_id
        /\ \A i \in 1..(Len(p) - 1) : p[i + 1] \in Succ(graph, p[i])
        /\ unwrap(result).distance \in PathSums(graph, p, 1)

C2_Witness ==
    /\ pc = "done"
    /\ Len(unwrap(result).path) >= 3
    /\ \E i \in 1..Len(queue) : queue[i][2] = to_id

\* C3 (as claimed): an unreachable pair with from # to ends as a normal
\* outcome whose distance is positive infinity.
C3_UnreachableReturnsInfinity ==
    (ValidPair /\ Finished /\ from_id # to_id
        /\ to_id \notin ReachSet(graph, from_id)) =>
            /\ pc = "done"
            /\ unwrap(result).distance = INFINITY

\* C4: get_shortest_path(v, v) returns distance 0 and the path [v].
C4_SameVertex ==
    (ValidPair /\ from_id = to_id) =>
        /\ pc # "panicked"
        /\ (pc = "done" =>
                unwrap(result) = [path |-> <<from_id>>, distance |-> 0])

C4_Witness ==
    /\ pc = "done"
    /\ from_id = to_id
    /\ from_id \in Succ(graph, from_id)
    /\ \E v \in Succ(graph, from_id) : v # from_id /\ from_id \in Succ(graph, v)

\* C5: a call with an identity add_vertex never returned panics with
\* VertexNotFound before any table exists, anything is queued or returned.
C5_InvalidIdPanicsFirst ==
    (InQuery /\ (~Valid(from_id) \/ ~Valid(to_id))) =>
        /\ pc = "panicked"
        /\ err = "VertexNotFound"
        /\ dist = NoTable /\ prev = NoTable /\ visited = NoTable
        /\ queue = <<>> /\ pops = <<>>
        /\ distance = None
        /\ result = None

C5_Witness ==
    /\ InQuery
    /\ pc = "panicked"
    /\ Valid(from_id) /\ ~Valid(to_id)
    /\ EdgeCount(graph) > 0

C6_Ids ==
    /\ Len(returned) = head
    /\ \A k \in 1..Len(returned) : returned[k] = k - 1
    /\ DOMAIN graph = 0..(head - 1)

C6_NoOverwrite ==
    Len(returned') > Len(returned) =>
        \A v \in DOMAIN graph : v \in DOMAIN graph' /\ graph'[v] = graph[v]

\* C6: the k-th add_vertex returned k-1, the identities present are exactly
\* 0..head-1, and add_vertex leaves every existing adjacency list as it was.
C6_SequentialIds == [](C6_Ids) /\ [][C6_NoOverwrite]_vars

C6_Witness ==
    /\ head = MaxVertices
    /\ Len(graph[0]) > 0
    /\ graph[head - 1] = <<>>

C7_TargetsPresent ==
    \A v \in DOMAIN graph : \A k \in 1..Len(graph[v]) : graph[v][k].to \in DOMAIN graph

C7_FailureAddsNothing ==
    /\ (op' = "add_edge" /\ op = "none") => (graph' = graph /\ head' = head)
    /\ (pc = "idle" /\ head' = head) => DOMAIN graph' = DOMAIN graph

\* C7: every stored edge's target is present in the store, and an add_edge
\* that fails with VertexNotFound adds no edge and no vertex.
C7_EdgeTargetsPresent == [](C7_TargetsPresent) /\ [][C7_FailureAddsNothing]_vars

C7_Witness ==
    /\ pc = "panicked"
    /\ op = "add_edge"
    /\ EdgeCount(graph) > 0
    /\ head < MaxVertices

\* the edge the step from g to h appended, as <<source, edge>>
NewEdge(g, h) ==
    LET u == CHOOSE v \in DOMAIN g : Len(h[v]) > Len(g[v]) IN <<u, h[u][Len(h[u])]>>

\* some minimum-cost path from s to t in h runs over the edge u -> e.to
UsesEdge(h, s, t, u, e) ==
    LET ds == TrueDist(h, s) IN
    /\ ds[u] # INFINITY
    /\ TrueDist(h, e.to)[t] # INFINITY
    /\ f64_add(f64_add(ds[u], e.cost), TrueDist(h, e.to)[t]) = ds[t]

C8_Step ==
    (pc = "idle" /\ pc' = "idle" /\ graph' # graph /\ head' = head) =>
        LET ne == NewEdge(graph, graph') IN
        \A s \in DOMAIN graph : \A t \in ReachSet(graph, s) :
            LET before == get_shortest_path(graph, s, t)
                after == get_shortest_path(graph', s, t)
            IN /\ before.panic = "none"
               /\ after.panic = "none"
               /\ after.distance <= before.distance
               /\ (~UsesEdge(graph', s, t, ne[1], ne[2]) =>
                       after.distance = before.distance)

\* C8: for a pair reachable before add_edge, the distance returned after the
\* edge is added is at most the one returned before, and equal to it when no
\* minimum-cost path of the enlarged store uses the new edge.
C8_AddEdgeMonotone == [][C8_Step]_vars

\* a store whose last edge out of some vertex shortened a distance that was
\* already finite without it
C8_Witness ==
    /\ pc = "idle"
    /\ \E u \in DOMAIN graph :
          /\ Len(graph[u]) > 0
          /\ LET g0 == [graph EXCEPT ![u] = SubSeq(@, 1, Len(@) - 1)] IN
             \E s \in DOMAIN graph : \E t \in ReachSet(g0, s) :
                /\ get_shortest_path(graph, s, t).distance
                       < get_shortest_path(g0, s, t).distance
                /\ \E t2 \in ReachSet(g0, s) :
                      t2 # s /\ ~UsesEdge(graph, s, t2, u, graph[u][Len(graph[u])])

C9_Inv ==
    /\ NoDup(relaxed)
    /\ ReachablePair =>
          /\ pc # "panicked"
          /\ (pc \in {"walk", "done"} => NoDup(path))
          /\ (pc = "walk" => /\ Len(path) <= Cardinality(DOMAIN graph) - 1
                             /\ \A i \in 1..Len(path) : path[i] # unwrap(at))
          /\ (pc = "done" => /\ Len(path) <= Cardinality(DOMAIN graph)
                             /\ path[1] = from_id)

\* C9: the search loop stops, no vertex has its edges relaxed twice, and for
\* a reachable target the predecessor walk reaches the start within |V|-1
\* steps without visiting a vertex twice.
C9_Terminates ==
    /\ [](C9_Inv)
    /\ []<>(pc # "search")
    /\ []<>(pc # "walk")

\* the loop has stopped after popping a superseded entry
C9_Witness ==
    /\ pc = "walk"
    /\ \E i, j \in 1..Len(pops) : i < j /\ pops[i][2] = pops[j][2]

InRun == InQuery /\ dist # NoTable

C10_Inv ==
    InRun =>
        /\ LET td == TrueDist(graph, from_id) IN
           \A v \in DOMAIN visited : visited[v] => dist[v] = td[v]
        /\ prev[from_id] = None
        /\ \A i, j \in 1..Len(pops) : i < j => pops[i][1] <= pops[j][1]

C10_Step ==
    (InRun /\ dist' # NoTable) =>
        \A v \in DOMAIN visited :
            visited[v] => /\ visited'[v]
                          /\ dist'[v] = dist[v]
                          /\ prev'[v] = prev[v]

\* C10: a finalized vertex holds its true minimum distance, its distance and
\* predecessor never change afterwards, the start's predecessor stays empty
\* and entries are popped in non-decreasing order of distance.
C10_FinalizedIsFinal == [](C10_Inv) /\ [][C10_Step]_vars

C10_Witness ==
    /\ pc = "search"
    /\ Len(pops) >= 3
    /\ \E i \in 1..Len(queue) : visited[queue[i][2]]

====
